---------------------------- MODULE Spec2Model ----------------------------
(***************************************************************************)
(* The room-lifecycle and membership coordinator of the anonymous chat     *)
(* server (src/server.js): the in-memory registry `rooms`, the socket.io   *)
(* handlers join-room, message, typing, stop-typing, close-room and        *)
(* disconnect, the HTTP routes /create-room and /room-info, and the        *)
(* cleanup timer of a room.  Node runs every handler to completion, so     *)
(* each handler is one atomic action.                                      *)
(***************************************************************************)
EXTENDS Integers, Sequences, FiniteSets, TLC

VARIABLES
    rooms,        \* the registry: roomId -> room, DOMAIN = the registered ids
    timers,       \* room ids whose setTimeout callback is still pending
    nextRoomId,   \* how many ids nanoid has handed out to /create-room
    sockets,      \* io.sockets.sockets: ids of the connected sockets
    nextSocketId, \* how many connections the server has accepted
    data,         \* socket.data of every connected socket
    joined,       \* socket.rooms: the adapter rooms each socket subscribed to
    now,          \* Date.now()
    reply,        \* what the last handler answered (ack or HTTP response)
    emitted,      \* events the last handler emitted, with their recipients
    history,      \* per socket id: timestamps of its accepted messages
    closed        \* roomId -> ids in users when close-room succeeded on it

vars == <<rooms, timers, nextRoomId, sockets, nextSocketId, data, joined,
          now, reply, emitted, history, closed>>

-----------------------------------------------------------------------------
(* Program constants (literals of src/server.js).                           *)

MaxUsers == 5
NameLen == 32
TextLen == 1000
RateWindow == 10000
RateMax == 10

(* Bounds of the model.                                                     *)

MaxRooms == 2
MaxSockets == 2
CapSockets == 6
RateTicks == 2
ChatMsgs == 1
LiveRooms == 2
LiveSockets == 1
IdRooms == 2
IdSockets == 1
HostRooms == 2
HostSockets == 2

-----------------------------------------------------------------------------
(* Values.                                                                  *)

NoRoom == 0                 \* an absent / falsy roomId
NoSocket == 0               \* hostSocketId: null
NoToken == <<>>             \* an absent / falsy hostToken
\* A key that the plain object `rooms` inherits from Object.prototype
\* ("constructor", "__proto__", "toString", ...): rooms[key] is truthy though
\* no room is stored under it, and it has no users, hostToken or cleanupTimer.
Inherited == -1
Token(k) == <<"hostToken", k>>     \* the k-th nanoid(16)

\* String(x).slice(0, n)
Slice(str, n) == IF Len(str) <= n THEN str ELSE SubSeq(str, 1, n)

RECURSIVE Repeat(_, _)
Repeat(str, n) == IF n = 0 THEN "" ELSE str \o Repeat(str, n - 1)

LongName == Repeat("abcdefghijk", 3)       \* 33 characters
LongText == Repeat(Repeat("0123456789", 10), 10) \o "!"   \* 1001 characters

\* socket.data of a fresh socket
FreshData == [roomId |-> NoRoom, username |-> "", isHost |-> FALSE,
              hostToken |-> NoToken, msgTimestamps |-> <<>>]

NoReply == [none |-> TRUE]
\* A TypeError thrown by a socket handler outside any try/catch: an uncaught
\* exception, which ends the process.
Uncaught == [thrown |-> "TypeError"]
\* The process has not been ended by an uncaught exception.
Running == reply # Uncaught
Fail(msg) == [ok |-> FALSE, error |-> msg]
AckOk == [ok |-> TRUE]

-----------------------------------------------------------------------------
(* room.users: a JS Map from socket id to {username}, kept in insertion     *)
(* order, as a sequence of [id, username].                                  *)

UsersHas(users, id) == \E i \in DOMAIN users : users[i].id = id

UsersSet(users, id, name) ==
    IF UsersHas(users, id)
    THEN [i \in DOMAIN users |->
            IF users[i].id = id THEN [id |-> id, username |-> name] ELSE users[i]]
    ELSE Append(users, [id |-> id, username |-> name])

UsersDelete(users, id) == SelectSeq(users, LAMBDA u : u.id # id)

UsersKeys(users) == [i \in DOMAIN users |-> users[i].id]

KeySet(users) == {users[i].id : i \in DOMAIN users}

\* Array.from(room.users.values()).map(u => u.username)
Roster(users) == [i \in DOMAIN users |-> users[i].username]

\* delete rooms[roomId]
Without(f, k) == [x \in DOMAIN f \ {k} |-> f[x]]

\* The sockets io.to(roomId) reaches: the connected sockets in the adapter room.
InRoomAll(socks, jn, roomId) == socks
InRoom(socks, jn, roomId) == {s \in socks : roomId \in jn[s]}

Emit(event, to, payload) == [event |-> event, to |-> to, payload |-> payload]

-----------------------------------------------------------------------------
Init ==
    /\ rooms = <<>>
    /\ timers = {}
    /\ nextRoomId = 0
    /\ sockets = {}
    /\ nextSocketId = 0
    /\ data = <<>>
    /\ joined = <<>>
    /\ now = 0
    /\ reply = NoReply
    /\ emitted = <<>>
    /\ history = <<>>
    /\ closed = <<>>

\* GET /create-room
CreateRoom ==
    LET roomId == nextRoomId + 1
        room == [hostToken |-> Token(roomId), hostSocketId |-> NoSocket,
                 users |-> <<>>, createdAt |-> now, cleanupTimer |-> TRUE]
    IN  /\ nextRoomId' = roomId
        /\ rooms' = (roomId :> room) @@ rooms
        /\ timers' = timers \cup {roomId}
        /\ reply' = [roomId |-> roomId, hostToken |-> room.hostToken]
        /\ emitted' = <<>>
        /\ UNCHANGED <<sockets, nextSocketId, data, joined, now, history, closed>>

\* rooms[roomId] && rooms[roomId].users.size === 0
StillEmptyNever(rs, roomId) == FALSE
StillEmpty(rs, roomId) == roomId \in DOMAIN rs /\ Len(rs[roomId].users) = 0

\* The callback of cleanupTimer, 10 minutes after /create-room.
Expire(roomId) ==
    /\ roomId \in timers
    /\ timers' = timers \ {roomId}
    /\ rooms' = IF StillEmpty(rooms, roomId)
                THEN Without(rooms, roomId)
                ELSE rooms
    /\ reply' = NoReply
    /\ emitted' = <<>>
    /\ UNCHANGED <<nextRoomId, sockets, nextSocketId, data, joined, now,
                   history, closed>>

\* GET /room-info/:roomId answered from registry rs
RoomInfoIn(rs, roomId) ==
    IF roomId \in DOMAIN rs
    THEN [status |-> 200, userCount |-> Len(rs[roomId].users),
          createdAt |-> rs[roomId].createdAt]
    ELSE IF roomId = Inherited
    \* r is truthy, r.users is undefined: r.users.size throws and Express
    \* answers the request with its default error response
    THEN [status |-> 500, error |-> "Internal Server Error"]
    ELSE [status |-> 404, error |-> "Not found"]

RoomInfo(roomId) == RoomInfoIn(rooms, roomId)

GetRoomInfo(roomId) ==
    /\ reply' = RoomInfo(roomId)
    /\ emitted' = <<>>
    /\ UNCHANGED <<rooms, timers, nextRoomId, sockets, nextSocketId, data,
                   joined, now, history, closed>>

\* io.on('connection'): a new socket with a fresh id and empty socket.data
Connect ==
    LET s == nextSocketId + 1
    IN  /\ nextSocketId' = s
        /\ sockets' = sockets \cup {s}
        /\ data' = (s :> FreshData) @@ data
        /\ joined' = (s :> {}) @@ joined
        /\ history' = (s :> <<>>) @@ history
        /\ reply' = NoReply
        /\ emitted' = <<>>
        /\ UNCHANGED <<rooms, timers, nextRoomId, now, closed>>


\* enforce max 5: room.users.size >= 5
RoomFullOffByOne(room) == Len(room.users) > MaxUsers
RoomFull(room) == Len(room.users) >= MaxUsers

\* set host if token matches: hostToken && hostToken === room.hostToken
TokenMatches(room, hostToken) ==
    hostToken # NoToken /\ hostToken = room.hostToken

\* clearTimeout(room.cleanupTimer): the timers still pending afterwards
ClearTimeoutNever(ts, roomId) == ts
ClearTimeout(ts, roomId) == ts \ {roomId}

\* const room = rooms[roomId]; !room
NoSuchRoom(rs, roomId) == roomId \notin DOMAIN rs /\ roomId # Inherited

\* socket.on('join-room', (payload, ack) => ...) with payload
\* {roomId, username, hostToken}
JoinRoom(s, roomId, username, hostToken) ==
    /\ s \in sockets
    /\ UNCHANGED <<nextRoomId, sockets, nextSocketId, now, history, closed>>
    /\ IF roomId = NoRoom \/ username = ""
       THEN /\ reply' = Fail("Missing roomId or username")
            /\ emitted' = <<>>
            /\ UNCHANGED <<rooms, timers, data, joined>>
       ELSE IF NoSuchRoom(rooms, roomId)
       THEN /\ reply' = Fail("Room not found or closed")
            /\ emitted' = <<>>
            /\ UNCHANGED <<rooms, timers, data, joined>>
       ELSE IF roomId = Inherited
       \* room.cleanupTimer is undefined, room.users.size throws: catch (err)
       THEN /\ reply' = Fail("Server error")
            /\ emitted' = <<>>
            /\ UNCHANGED <<rooms, timers, data, joined>>
       ELSE
         LET room == rooms[roomId]
             \* clear cleanup timer since someone is joining
             cleared == IF room.cleanupTimer
                        THEN [room EXCEPT !.cleanupTimer = FALSE]
                        ELSE room
         IN  /\ timers' = IF room.cleanupTimer
                          THEN ClearTimeout(timers, roomId)
                          ELSE timers
             /\ IF RoomFull(room)
                THEN /\ reply' = Fail("Room full (max 5)")
                     /\ rooms' = [rooms EXCEPT ![roomId] = cleared]
                     /\ emitted' = <<>>
                     /\ UNCHANGED <<data, joined>>
                ELSE
                  LET asHost == TokenMatches(room, hostToken)
                      safeName == Slice(username, NameLen)
                      users == UsersSet(room.users, s, safeName)
                      to == InRoom(sockets, joined, roomId) \cup {s}
                  IN  /\ reply' = [ok |-> TRUE, roomId |-> roomId,
                                   userCount |-> Len(users),
                                   host |-> asHost \/ data[s].isHost]
                      /\ rooms' = [rooms EXCEPT ![roomId] =
                            [cleared EXCEPT
                               !.hostSocketId = IF asHost THEN s ELSE @,
                               !.users = users]]
                      /\ data' = [data EXCEPT ![s] =
                            [@ EXCEPT
                               !.isHost = IF asHost THEN TRUE ELSE @,
                               !.hostToken = IF asHost THEN hostToken ELSE @,
                               !.roomId = roomId,
                               !.username = safeName]]
                      /\ joined' = [joined EXCEPT ![s] = @ \cup {roomId}]
                      /\ emitted' =
                            << Emit("system", to,
                                    [type |-> "join", username |-> safeName]),
                               Emit("participants", to, Roster(users)) >>

\* remove timestamps older than 10s:
\* msgTimestamps.filter(ts => now - ts < 10000)
Recent(stamps, t) == SelectSeq(stamps, LAMBDA ts : t - ts < RateWindow)

\* msgTimestamps.length >= 10
RateExceededOffByOne(kept) == Len(kept) > RateMax
RateExceeded(kept) == Len(kept) >= RateMax

\* !roomId || !rooms[roomId]
NotInRoomLax(rs, roomId) == roomId # NoRoom /\ roomId \notin DOMAIN rs
NotInRoom(rs, roomId) == roomId = NoRoom \/ roomId \notin DOMAIN rs

\* socket.on('message', (msg, ack) => ...)
Message(s, msg) ==
    /\ s \in sockets
    /\ UNCHANGED <<rooms, timers, nextRoomId, sockets, nextSocketId, joined,
                   now, closed>>
    /\ LET roomId == data[s].roomId
           kept == Recent(data[s].msgTimestamps, now)
       IN  IF NotInRoom(rooms, roomId)
           THEN /\ reply' = Fail("Not in room")
                /\ emitted' = <<>>
                /\ UNCHANGED <<data, history>>
           ELSE IF RateExceeded(kept)
           THEN /\ reply' = Fail("Rate limit exceeded. Slow down.")
                /\ data' = [data EXCEPT ![s].msgTimestamps = kept]
                /\ emitted' = <<>>
                /\ UNCHANGED history
           ELSE /\ reply' = AckOk
                /\ data' = [data EXCEPT ![s].msgTimestamps = Append(kept, now)]
                /\ history' = [history EXCEPT ![s] = Append(@, now)]
                /\ emitted' =
                      << Emit("message", InRoom(sockets, joined, roomId),
                              [from |-> data[s].username,
                               text |-> Slice(msg, TextLen),
                               ts |-> now]) >>

\* socket.on('typing') and socket.on('stop-typing'): socket.to(roomId).emit
Notify(s, event) ==
    /\ s \in sockets
    /\ reply' = NoReply
    /\ emitted' = IF data[s].roomId # NoRoom
                  THEN << Emit(event,
                               InRoom(sockets, joined, data[s].roomId) \ {s},
                               [username |-> data[s].username]) >>
                  ELSE <<>>
    /\ UNCHANGED <<rooms, timers, nextRoomId, sockets, nextSocketId, data,
                   joined, now, history, closed>>

Typing(s) == Notify(s, "typing")

StopTyping(s) == Notify(s, "stop-typing")

-----------------------------------------------------------------------------
(* The part of the state a closing socket's 'disconnect' handler works on;  *)
(* close-room runs that handler once per member inside its own forEach.     *)

World == [rooms |-> rooms, sockets |-> sockets, data |-> data,
          joined |-> joined, emitted |-> <<>>]

\* room.users.size === 0
NowEmptyNever(users) == FALSE
NowEmpty(users) == Len(users) = 0

\* if (room.hostSocketId === socket.id) room.hostSocketId = null
HostKept(host, s) == host
HostAfterLeave(host, s) == IF host = s THEN NoSocket ELSE host

\* socket.io closes socket s (it leaves every adapter room and io.sockets.sockets),
\* then socket.on('disconnect', reason => ...) runs.
OnDisconnect(w, s) ==
    LET socks == w.sockets \ {s}
        jn == Without(w.joined, s)
        roomId == w.data[s].roomId
        gone == [w EXCEPT !.sockets = socks, !.joined = jn,
                          !.data = Without(w.data, s)]
    IN  IF roomId = NoRoom \/ roomId \notin DOMAIN w.rooms
        THEN gone
        ELSE
          LET room == w.rooms[roomId]
              users == UsersDelete(room.users, s)
              left == [room EXCEPT
                         !.users = users,
                         !.hostSocketId = HostAfterLeave(@, s)]
              to == InRoom(socks, jn, roomId)
          IN  [gone EXCEPT
                 !.emitted = @ \o
                     << Emit("system", to,
                             [type |-> "leave", username |-> w.data[s].username]),
                        Emit("participants", to, Roster(users)) >>,
                 \* if empty, delete room immediately
                 !.rooms = IF NowEmpty(users)
                           THEN Without(w.rooms, roomId)
                           ELSE [w.rooms EXCEPT ![roomId] = left]]

\* disconnect cleanup: the client or the transport closes socket s
Disconnect(s) ==
    /\ s \in sockets
    /\ reply' = NoReply
    /\ \E w \in {OnDisconnect(World, s)} :
           /\ rooms' = w.rooms
           /\ sockets' = w.sockets
           /\ data' = w.data
           /\ joined' = w.joined
           /\ emitted' = w.emitted
    /\ UNCHANGED <<timers, nextRoomId, nextSocketId, now, history, closed>>

\* A close-room that only makes the members leave the adapter room.
RECURSIVE CloseLoopLeaveOnly(_, _, _)
CloseLoopLeaveOnly(w, sids, roomId) ==
    IF sids = <<>>
    THEN w
    ELSE LET sid == Head(sids)
             after == IF sid \in w.sockets
                      THEN [w EXCEPT !.joined[sid] = @ \ {roomId}]
                      ELSE w
         IN  CloseLoopLeaveOnly(after, Tail(sids), roomId)

\* sockets.forEach(sid => { s.leave(roomId); s.disconnect(true) })
RECURSIVE CloseLoop(_, _, _)
CloseLoop(w, sids, roomId) ==
    IF sids = <<>>
    THEN w
    ELSE LET sid == Head(sids)
             after == IF sid \in w.sockets
                      THEN OnDisconnect(
                             [w EXCEPT !.joined[sid] = @ \ {roomId}], sid)
                      ELSE w
         IN  CloseLoop(after, Tail(sids), roomId)

\* hostToken !== room.hostToken
WrongTokenLax(room, hostToken) ==
    hostToken # NoToken /\ hostToken # room.hostToken
WrongToken(room, hostToken) == hostToken # room.hostToken

\* socket.on('close-room', (payload, ack) => ...) with payload {roomId, hostToken}
CloseRoom(s, roomId, hostToken) ==
    /\ s \in sockets
    /\ UNCHANGED <<timers, nextRoomId, nextSocketId, now, history>>
    /\ IF NoSuchRoom(rooms, roomId)
       THEN /\ reply' = Fail("Room not found")
            /\ emitted' = <<>>
            /\ UNCHANGED <<rooms, sockets, data, joined, closed>>
       ELSE IF roomId = Inherited
       \* room.hostToken is undefined: a payload without hostToken passes the
       \* token test, 'room-closed' is emitted and room.users.keys() throws
       THEN /\ reply' = IF hostToken # NoToken
                        THEN Fail("Invalid host token")
                        ELSE Uncaught
            /\ emitted' = IF hostToken # NoToken
                          THEN <<>>
                          ELSE << Emit("system",
                                       InRoom(sockets, joined, roomId),
                                       [type |-> "room-closed"]) >>
            /\ UNCHANGED <<rooms, sockets, data, joined, closed>>
       ELSE IF WrongToken(rooms[roomId], hostToken)
       THEN /\ reply' = Fail("Invalid host token")
            /\ emitted' = <<>>
            /\ UNCHANGED <<rooms, sockets, data, joined, closed>>
       ELSE
         LET notified == [World EXCEPT !.emitted =
                            << Emit("system", InRoom(sockets, joined, roomId),
                                    [type |-> "room-closed"]) >>]
             sids == UsersKeys(rooms[roomId].users)
         IN  /\ reply' = AckOk
             /\ closed' = (roomId :> KeySet(rooms[roomId].users)) @@ closed
             /\ \E w \in {CloseLoop(notified, sids, roomId)} :
                   /\ rooms' = Without(w.rooms, roomId)
                   /\ sockets' = w.sockets
                   /\ data' = w.data
                   /\ joined' = w.joined
                   /\ emitted' = w.emitted

\* Time passes between two events.
Tick(d) ==
    /\ now' = now + d
    /\ UNCHANGED <<rooms, timers, nextRoomId, sockets, nextSocketId, data,
                   joined, reply, emitted, history, closed>>

-----------------------------------------------------------------------------
(* Inputs.                                                                  *)

Tokens == {NoToken} \cup {Token(k) : k \in 1 .. MaxRooms}
\* The usernames socket s may present: none, or its own; the first socket's
\* is longer than NameLen.
Usernames(s) == {"", IF s = 1 THEN LongName ELSE "user" \o ToString(s)}
Texts == {"hi", LongText}
\* close-room payloads {roomId, hostToken}: without roomId, or for a room.
ClosePayloads ==
    {[roomId |-> NoRoom, hostToken |-> NoToken]} \cup
    [roomId : 1 .. MaxRooms, hostToken : Tokens]
\* join-room payloads {roomId, username, hostToken} of socket s: without
\* roomId, without username, or complete.
JoinPayloads(s) ==
    {[roomId |-> NoRoom, username |-> u, hostToken |-> NoToken] :
        u \in Usernames(s) \ {""}} \cup
    {[roomId |-> 1, username |-> "", hostToken |-> NoToken]} \cup
    [roomId : 1 .. MaxRooms, username : Usernames(s) \ {""}, hostToken : Tokens]

\* Messages accepted so far, over all sockets.
Accepted == LET RECURSIVE Sum(_)
                Sum(S) == IF S = {} THEN 0
                          ELSE LET x == CHOOSE x \in S : TRUE
                               IN  Len(history[x]) + Sum(S \ {x})
            IN  Sum(DOMAIN history)

\* Rooms, membership, notifications and a few messages among a few sockets.
Next ==
    \/ nextRoomId < MaxRooms /\ CreateRoom
    \/ nextSocketId < MaxSockets /\ Connect
    \/ \E roomId \in timers : Expire(roomId)
    \/ \E roomId \in 1 .. MaxRooms : GetRoomInfo(roomId)
    \/ \E s \in sockets : \E p \in JoinPayloads(s) :
          JoinRoom(s, p.roomId, p.username, p.hostToken)
    \/ \E s \in sockets, msg \in Texts : Accepted < ChatMsgs /\ Message(s, msg)
    \/ \E s \in sockets : Typing(s)
    \/ \E s \in sockets : StopTyping(s)
    \/ \E s \in sockets, p \in ClosePayloads :
          CloseRoom(s, p.roomId, p.hostToken)
    \/ \E s \in sockets : Disconnect(s)

Spec == Init /\ [][Next]_vars

\* One room and enough sockets to fill it: joins, leaves, closing and expiry.
NextCap ==
    \/ nextRoomId = 0 /\ CreateRoom
    \/ nextSocketId < CapSockets /\ Connect
    \/ \E roomId \in timers : Expire(roomId)
    \/ \E s \in sockets : JoinRoom(s, 1, "user", NoToken)
    \/ \E s \in sockets : CloseRoom(s, 1, Token(1))
    \/ \E s \in sockets : Disconnect(s)

SpecCap == Init /\ [][NextCap]_vars

\* The clock steps between two events of the rate-limiter runs: two of them
\* add up to one millisecond less than the window, to the window, or more.
Steps == {RateWindow \div 2 - 1, RateWindow \div 2}

\* How many steps the clock has made.
Ticks == now \div (RateWindow \div 2 - 1)

\* One socket in one room sending messages while time passes.
NextRate ==
    \/ nextRoomId = 0 /\ CreateRoom
    \/ nextSocketId = 0 /\ Connect
    \/ \E s \in sockets : JoinRoom(s, 1, "user", NoToken)
    \/ \E s \in sockets : Message(s, "hi")
    \/ \E d \in Steps : Ticks < RateTicks /\ Tick(d)

SpecRate == Init /\ [][NextRate]_vars

\* Rooms that are created, joined, left, closed or left to expire; node runs
\* a timer's callback once its delay has passed, so a pending timer fires.
NextLive ==
    \/ nextRoomId < LiveRooms /\ CreateRoom
    \/ nextSocketId < LiveSockets /\ Connect
    \/ \E roomId \in timers : Expire(roomId)
    \/ \E roomId \in 1 .. LiveRooms : GetRoomInfo(roomId)
    \/ \E s \in sockets, roomId \in 1 .. LiveRooms :
          JoinRoom(s, roomId, "user", NoToken)
    \/ \E s \in sockets, roomId \in 1 .. LiveRooms :
          CloseRoom(s, roomId, Token(roomId))
    \/ \E s \in sockets : Disconnect(s)

SpecLive ==
    /\ Init
    /\ [][NextLive]_vars
    /\ \A roomId \in 1 .. LiveRooms : WF_vars(Expire(roomId))

\* The room identifiers a client may send: the ones /create-room hands out and
\* a key inherited from Object.prototype.
RoomKeys == (1 .. IdRooms) \cup {Inherited}
IdTokens == {NoToken, Token(1)}

\* Requests that name rooms which are registered, not yet created, closed,
\* emptied or expired, and keys that never name a room; an uncaught exception
\* ends the process, so nothing is handled after it.
NextIds ==
    \/ Running /\ nextRoomId < IdRooms /\ CreateRoom
    \/ Running /\ nextSocketId < IdSockets /\ Connect
    \/ \E roomId \in timers : Running /\ Expire(roomId)
    \/ \E roomId \in RoomKeys : Running /\ GetRoomInfo(roomId)
    \/ \E s \in sockets, roomId \in RoomKeys, hostToken \in IdTokens :
          Running /\ JoinRoom(s, roomId, "user", hostToken)
    \/ \E s \in sockets, roomId \in RoomKeys, hostToken \in IdTokens :
          Running /\ CloseRoom(s, roomId, hostToken)
    \/ \E s \in sockets : Running /\ Disconnect(s)

SpecIds == Init /\ [][NextIds]_vars

\* Sockets that join with or without the room's hostToken, leave, and close.
NextHost ==
    \/ nextRoomId < HostRooms /\ CreateRoom
    \/ nextSocketId < HostSockets /\ Connect
    \/ \E roomId \in timers : Expire(roomId)
    \/ \E s \in sockets, roomId \in 1 .. HostRooms :
          \E hostToken \in {NoToken, Token(roomId)} :
             JoinRoom(s, roomId, "user", hostToken)
    \/ \E s \in sockets, roomId \in 1 .. HostRooms :
          CloseRoom(s, roomId, Token(roomId))
    \/ \E s \in sockets : Disconnect(s)

SpecHost == Init /\ [][NextHost]_vars

-----------------------------------------------------------------------------
(* Properties.                                                              *)

AnyName == {"", "user", LongName} \cup {"user" \o ToString(s) : s \in 1 .. MaxSockets}

\* The members of a room are the keys of its users map.
Members(roomId) == KeySet(rooms[roomId].users)

CapacityKept(rs) ==
    \A roomId \in DOMAIN rs :
        /\ Len(rs[roomId].users) <= MaxUsers
        /\ Cardinality(KeySet(rs[roomId].users)) = Len(rs[roomId].users)

\* C1: every room has at most 5 members in every reachable state, and a
\* well-formed join-room from a socket that is not a member of a room holding
\* 5 members is acknowledged 'Room full (max 5)' and leaves the members of
\* that room as they were.
C1_RoomCapacity ==
    /\ CapacityKept(rooms)
    /\ [][ /\ CapacityKept(rooms')
           /\ \A s \in sockets, roomId \in DOMAIN rooms :
                 (Len(rooms[roomId].users) = MaxUsers /\ s \notin Members(roomId))
                 => \A username \in AnyName \ {""}, hostToken \in Tokens :
                       JoinRoom(s, roomId, username, hostToken)
                       => /\ reply' = Fail("Room full (max 5)")
                          /\ roomId \in DOMAIN rooms'
                          /\ rooms'[roomId].users = rooms[roomId].users
                          /\ emitted' = <<>>
         ]_vars

\* A sixth socket was refused by a room that holds five members.
C1_Witness ==
    /\ reply = Fail("Room full (max 5)")
    /\ \E roomId \in DOMAIN rooms :
          /\ Len(rooms[roomId].users) = MaxUsers
          /\ \E s \in sockets : s \notin Members(roomId)

-----------------------------------------------------------------------------
\* The rooms that hold socket s as a key of users.
RoomsOf(rs, s) == {roomId \in DOMAIN rs : s \in KeySet(rs[roomId].users)}

\* C2: a connection joins at most one room in its lifetime: after a join
\* succeeded no later join-room changes the session's roomId, and every
\* connection id is a key of users in at most one room.
C2_OneRoomPerConnection ==
    [][ /\ \A s \in sockets \cap sockets' :
              data[s].roomId # NoRoom => data'[s].roomId = data[s].roomId
        /\ \A s \in 1 .. nextSocketId' : Cardinality(RoomsOf(rooms', s)) <= 1
      ]_vars

ChatEvents == {"message", "typing", "stop-typing"}

\* What a closed room leaves behind: it is out of the registry, GET /room-info
\* answers 404, its members are disconnected and no chat event reaches them.
ClosedForGood(rs, socks, em, cl) ==
    \A roomId \in DOMAIN cl :
        /\ roomId \notin DOMAIN rs
        /\ cl[roomId] \cap socks = {}
        /\ \A i \in DOMAIN em :
              em[i].event \in ChatEvents => em[i].to \cap cl[roomId] = {}

\* C3: close-room succeeds exactly when the room is registered and the token
\* is the room's hostToken, whether or not the caller joined; from then on
\* the room is out of the registry (GET /room-info answers 404) and no
\* message, typing or stop-typing event is delivered to a socket that was a
\* member of it.
C3_ClosedRoomIsGone ==
    [][ /\ \A s \in sockets, roomId \in DOMAIN rooms :
              CloseRoom(s, roomId, rooms[roomId].hostToken)
              => /\ reply' = AckOk
                 /\ roomId \in DOMAIN closed'
                 /\ closed'[roomId] = Members(roomId)
        /\ ClosedForGood(rooms', sockets', emitted', closed')
        /\ \A roomId \in DOMAIN closed' :
              (GetRoomInfo(roomId) => reply'.status = 404)
      ]_vars

\* After a room with members was closed, a chat event reached somebody.
C3_Witness ==
    /\ \E roomId \in DOMAIN closed : closed[roomId] # {}
    /\ \E i \in DOMAIN emitted :
          emitted[i].event \in ChatEvents /\ emitted[i].to # {}

\* C4: close-room on a registered room with a token other than its hostToken
\* is acknowledged 'Invalid host token' and changes nothing: rooms, members,
\* host, timers and connections stay as they were and nothing is emitted.
C4_WrongTokenChangesNothing ==
    [][ \A s \in sockets, roomId \in DOMAIN rooms, hostToken \in Tokens :
           (hostToken # rooms[roomId].hostToken /\ CloseRoom(s, roomId, hostToken))
           => /\ reply' = Fail("Invalid host token")
              /\ emitted' = <<>>
              /\ UNCHANGED <<rooms, timers, sockets, data, joined>>
      ]_vars

\* A close-room with a wrong token was refused on a room that has a host.
C4_Witness ==
    /\ reply = Fail("Invalid host token")
    /\ \E roomId \in DOMAIN rooms : rooms[roomId].hostSocketId # NoSocket

\* C5: at most one connection holds host status for a room: after a join
\* presenting the room's hostToken succeeds for socket s, hostSocketId is s and
\* every other socket joined to the room has isHost = FALSE.
C5_SingleHost ==
    [][ \A s \in sockets, roomId \in DOMAIN rooms :
           \A username \in AnyName \ {""} :
              ( /\ ~RoomFull(rooms[roomId])
                /\ JoinRoom(s, roomId, username, rooms[roomId].hostToken) )
              => /\ rooms'[roomId].hostSocketId = s
                 /\ \A o \in (Members(roomId) \cap sockets) \ {s} :
                       ~data'[o].isHost
      ]_vars

-----------------------------------------------------------------------------
\* The accepted messages of socket s with a timestamp in the 10 seconds that
\* end at t: t - 10000 < ts <= t.
InWindow(hist, s, t) ==
    {i \in DOMAIN hist[s] : t - hist[s][i] < RateWindow /\ hist[s][i] <= t}

\* The count in the window ending at t grows only when t reaches an accepted
\* timestamp, so these instants decide it for every t.
Instants(hist, s, t) == {hist[s][i] : i \in DOMAIN hist[s]} \cup {t}

WindowKept(hist, t) ==
    \A s \in DOMAIN hist :
        \A u \in Instants(hist, s, t) :
            Cardinality(InWindow(hist, s, u)) <= RateMax

-----------------------------------------------------------------------------
\* C7: a room with zero members does not stay in the registry: its timer
\* fires unless a join cancels it, and when the timer of a room that nobody
\* joined fires, the room is deleted and GET /room-info answers 404.
C7_EmptyRoomExpires ==
    /\ [][ \A roomId \in DOMAIN rooms :
              (Len(rooms[roomId].users) = 0 /\ Expire(roomId))
              => /\ roomId \notin DOMAIN rooms'
                 /\ RoomInfoIn(rooms', roomId).status = 404
         ]_vars
    /\ \A roomId \in 1 .. LiveRooms :
          StillEmpty(rooms, roomId)
             ~> (roomId \notin DOMAIN rooms \/ Len(rooms[roomId].users) > 0)

\* The only room ever created was never joined and is gone, and GET
\* /room-info says so.
C7_Witness ==
    /\ nextRoomId = 1
    /\ nextSocketId = 0
    /\ 1 \notin DOMAIN rooms
    /\ reply = [status |-> 404, error |-> "Not found"]

-----------------------------------------------------------------------------
\* The username socket s gives when it joins.
OwnName(s) == CHOOSE u \in Usernames(s) : u # ""

\* C8: an accepted message is delivered exactly once to every current member
\* of the sender's room, the sender included, and to nobody else, with from =
\* the first 32 characters of the sender's username and text = the first 1000
\* characters of the submitted text.
C8_MessageDelivery ==
    [][ \A s \in sockets, msg \in Texts :
           (Message(s, msg) /\ reply' = AckOk)
           => /\ Len(emitted') = 1
              /\ emitted'[1].event = "message"
              /\ emitted'[1].to = Members(data[s].roomId)
              /\ emitted'[1].payload.from = Slice(OwnName(s), NameLen)
              /\ emitted'[1].payload.text = Slice(msg, TextLen)
      ]_vars

\* C9: when a joined socket disconnects it is removed from its room's users;
\* if that empties the room, the room leaves the registry in the same step
\* (GET /room-info answers 404); otherwise the room stays and every remaining
\* member receives system {type:'leave', username} and then the roster of the
\* remaining members in join order.
C9_DisconnectLeaves ==
    [][ \A s \in sockets :
           (data[s].roomId \in DOMAIN rooms /\ Disconnect(s))
           => LET roomId == data[s].roomId
                  rest == UsersDelete(rooms[roomId].users, s)
              IN  IF rest = <<>>
                  THEN /\ roomId \notin DOMAIN rooms'
                       /\ RoomInfoIn(rooms', roomId).status = 404
                  ELSE /\ roomId \in DOMAIN rooms'
                       /\ rooms'[roomId].users = rest
                       /\ emitted' =
                            << Emit("system", KeySet(rest),
                                    [type |-> "leave",
                                     username |-> data[s].username]),
                               Emit("participants", KeySet(rest), Roster(rest)) >>
      ]_vars

\* C10: typing and stop-typing from a joined socket reach every other current
\* member of its room with the sender's display name, never the sender; from
\* a socket that joined no room they are ignored: nothing is emitted and
\* nothing is acknowledged.
C10_TypingRelay ==
    [][ \A s \in sockets, event \in {"typing", "stop-typing"} :
           Notify(s, event)
           => /\ reply' = NoReply
              /\ IF data[s].roomId = NoRoom
                 THEN emitted' = <<>>
                 ELSE /\ data[s].roomId \in DOMAIN rooms
                      /\ emitted' =
                           << Emit(event, Members(data[s].roomId) \ {s},
                                   [username |-> Slice(OwnName(s), NameLen)]) >>
      ]_vars

-----------------------------------------------------------------------------
\* The identifiers under which no room is registered now.
Unregistered == RoomKeys \ DOMAIN rooms

\* C11: join-room, close-room and GET /room-info addressed to an identifier
\* under which no room is registered answer 'Room not found or closed',
\* 'Room not found' and 404, change no room, session or timer state, emit
\* nothing and raise no unhandled error.
C11_NotFoundHandled ==
    [][ \A roomId \in Unregistered :
           /\ GetRoomInfo(roomId) => reply'.status = 404
           /\ \A s \in sockets, hostToken \in IdTokens :
                 /\ JoinRoom(s, roomId, "user", hostToken)
                    => /\ reply' = Fail("Room not found or closed")
                       /\ emitted' = <<>>
                       /\ UNCHANGED <<rooms, timers, sockets, data, joined>>
                 /\ CloseRoom(s, roomId, hostToken)
                    => /\ reply' = Fail("Room not found")
                       /\ emitted' = <<>>
                       /\ UNCHANGED <<rooms, timers, sockets, data, joined>>
      ]_vars

-----------------------------------------------------------------------------
\* C12: in every reachable state every member of every registered room is a
\* connected socket: a disconnected socket's id is a key of users in no room.
C12_MembersAreConnected ==
    \A roomId \in DOMAIN rooms : Members(roomId) \subseteq sockets

-----------------------------------------------------------------------------
\* The acknowledgment of a join-room that admitted the socket.
JoinAck == DOMAIN reply = {"ok", "roomId", "userCount", "host"}

NoTimerWithMembers(rs, ts) ==
    \A roomId \in DOMAIN rs : Len(rs[roomId].users) > 0 => roomId \notin ts

\* C13: a room with a member has no pending expiry timer and is never removed
\* by the expiry action: a join-room that succeeds cancels the timer in the
\* step that admits the member, and a room with members leaves the registry
\* only by a successful close-room or by its members, all of them, leaving.
C13_NoExpiryOfNonEmpty ==
    /\ NoTimerWithMembers(rooms, timers)
    /\ [][ /\ NoTimerWithMembers(rooms', timers')
           /\ \A roomId \in DOMAIN rooms :
             /\ (Len(rooms[roomId].users) > 0 /\ Expire(roomId))
                => roomId \in DOMAIN rooms'
             /\ \A s \in sockets :
                   (JoinRoom(s, roomId, "user", NoToken) /\ reply'.ok)
                   => /\ roomId \notin timers'
                      /\ ~rooms'[roomId].cleanupTimer
                      /\ s \in KeySet(rooms'[roomId].users)
             /\ (Len(rooms[roomId].users) > 0 /\ roomId \notin DOMAIN rooms')
                => \/ roomId \in DOMAIN closed' \ DOMAIN closed
                   \/ /\ Members(roomId) \subseteq sockets
                      /\ Members(roomId) \cap sockets' = {}
         ]_vars

\* A socket was admitted to a room while the timer of another room is pending.
C13_Witness ==
    /\ JoinAck
    /\ reply.roomId \in DOMAIN rooms
    /\ Len(rooms[reply.roomId].users) > 0
    /\ reply.roomId \notin timers
    /\ timers # {}

-----------------------------------------------------------------------------
HostIsMember(rs) ==
    \A roomId \in DOMAIN rs :
        \/ rs[roomId].hostSocketId = NoSocket
        \/ rs[roomId].hostSocketId \in KeySet(rs[roomId].users)

-----------------------------------------------------------------------------
\* The accepted messages of socket s whose timestamp is not older than 10
\* seconds at t: t - ts <= 10000.
NotOlder(hist, s, t) == {i \in DOMAIN hist[s] : t - hist[s][i] <= RateWindow}

\* C15: a message attempt of a joined socket is accepted if and only if fewer
\* than 10 of the socket's accepted attempts have a timestamp not older than
\* 10 seconds now; a rejected attempt records no timestamp: the timestamps
\* kept are those of accepted attempts not older than 10 seconds.
C15_RateDecision ==
    [][ \A s \in sockets, msg \in Texts :
           (data[s].roomId \in DOMAIN rooms /\ Message(s, msg))
           => /\ reply'.ok <=> Cardinality(NotOlder(history, s, now)) < RateMax
              /\ ~reply'.ok
                 => /\ history' = history
                    /\ Len(data'[s].msgTimestamps) =
                          Cardinality(NotOlder(history, s, now))
      ]_vars

-----------------------------------------------------------------------------
\* C16: in every reachable state a pending expiry timer refers to a room that
\* is in the registry: close-room on a room whose timer is pending cancels the
\* timer in the step that deletes the room.
C16_TimerHasRoom ==
    /\ timers \subseteq DOMAIN rooms
    /\ [][ /\ timers' \subseteq DOMAIN rooms'
           /\ \A s \in sockets, roomId \in timers :
             (roomId \in DOMAIN rooms /\ CloseRoom(s, roomId, rooms[roomId].hostToken))
             => roomId \notin timers'
         ]_vars

-----------------------------------------------------------------------------
\* Every socket subscribed to a room's broadcasts (in its adapter room) is a
\* key of the users of that room, which is registered.
SubscribersAreMembers(rs, socks, jn) ==
    \A s \in socks : \A roomId \in jn[s] :
        roomId \in DOMAIN rs /\ s \in KeySet(rs[roomId].users)

\* Every event in em goes to keys of users only.
OnlyTo(em, users) == \A i \in DOMAIN em : em[i].to \subseteq KeySet(users)

\* C17: the sockets subscribed to a room's broadcasts are always keys of its
\* users, and every message, typing, stop-typing and system event goes only to
\* sockets that are keys of the users of its room when the event that
\* triggers it is handled.
C17_BroadcastsToMembers ==
    /\ SubscribersAreMembers(rooms, sockets, joined)
    /\ [][ /\ SubscribersAreMembers(rooms', sockets', joined')
           /\ emitted' # <<>>
              => \A s \in sockets :
                 LET roomId == data[s].roomId
                     users == IF roomId \in DOMAIN rooms
                              THEN rooms[roomId].users ELSE <<>>
                     first == emitted'[1]
                 IN  /\ \A msg \in Texts :
                           (first.event = "message" /\ Message(s, msg))
                           => OnlyTo(emitted', users)
                     /\ \A event \in {"typing", "stop-typing"} :
                           (first.event = event /\ Notify(s, event))
                           => OnlyTo(emitted', users)
                     /\ (first.payload = [type |-> "leave",
                                          username |-> data[s].username]
                           /\ Disconnect(s))
                        => OnlyTo(emitted', UsersDelete(users, s))
                     /\ \A p \in JoinPayloads(s) :
                           ( /\ first.event = "system"
                             /\ first.payload.type = "join"
                             /\ JoinRoom(s, p.roomId, p.username, p.hostToken) )
                           => OnlyTo(emitted', rooms'[p.roomId].users)
                     /\ \A p \in ClosePayloads :
                           ( /\ first.payload = [type |-> "room-closed"]
                             /\ CloseRoom(s, p.roomId, p.hostToken) )
                           => /\ first.to \subseteq Members(p.roomId)
                              /\ \A i \in DOMAIN emitted' :
                                    \E r \in DOMAIN rooms :
                                       emitted'[i].to \subseteq Members(r)
         ]_vars

\* A message reached the members of a room while a connected socket that is
\* not a member of it received nothing.
C17_Witness ==
    /\ emitted # <<>>
    /\ emitted[1].event = "message"
    /\ emitted[1].to # {}
    /\ sockets \ emitted[1].to # {}

-----------------------------------------------------------------------------
\* C18: a close-room that succeeds on a room changes only that room: every
\* other room stays registered with the same users and the same hostSocketId,
\* and no socket whose session names another room is disconnected.
C18_CloseChangesOnlyThatRoom ==
    [][ \A s \in sockets, roomId \in DOMAIN rooms :
           CloseRoom(s, roomId, rooms[roomId].hostToken)
           => /\ \A other \in DOMAIN rooms \ {roomId} :
                    /\ other \in DOMAIN rooms'
                    /\ rooms'[other].users = rooms[other].users
                    /\ rooms'[other].hostSocketId = rooms[other].hostSocketId
              /\ \A c \in sockets :
                    data[c].roomId \in DOMAIN rooms \ {roomId} => c \in sockets'
      ]_vars

-----------------------------------------------------------------------------
\* C19: a message from a socket that is not joined (no session roomId, or a
\* session room that is not registered) is acknowledged 'Not in room', nothing
\* is emitted and the socket's rate-limiter timestamps stay as they were.
C19_MessageWhenNotJoined ==
    [][ \A s \in sockets, msg \in Texts :
           ( /\ data[s].roomId = NoRoom \/ data[s].roomId \notin DOMAIN rooms
             /\ Message(s, msg) )
           => /\ reply' = Fail("Not in room")
              /\ emitted' = <<>>
              /\ data'[s].msgTimestamps = data[s].msgTimestamps
              /\ history' = history
      ]_vars

\* A socket that has not joined the registered room sent a message.
C19_Witness ==
    /\ reply = Fail("Not in room")
    /\ rooms # <<>>
    /\ \E s \in sockets : data[s].roomId = NoRoom

-----------------------------------------------------------------------------
=============================================================================
